---- MODULE Spec2Model ----
(***************************************************************************)
(* MergedBlockOutputStream: the writer of one data part, its two-step      *)
(* finalization (finalizePartAsync, then Finalizer::finish or ::cancel)    *)
(* and the auxiliary files finalizePartOnDisk stages.                      *)
(*                                                                         *)
(* One behaviour is the life of one writer: construction, a sequence of    *)
(* write / writeWithPermutation calls, one finalizePartAsync, and then any *)
(* sequence of finish(), cancel() and destruction of the returned handle.  *)
(* Every call is one action; where a call can throw, the point at which it *)
(* throws is an input of the action.                                       *)
(***************************************************************************)
EXTENDS Integers, Sequences, FiniteSets, TLC

\* Bounds of the model.
MaxWrites == 2
MaxCalls == 2
MaxAttrs == 1
MaxRules == 2
MaxOldEntries == 1
MaxMarks == 3
\* The most commit handles that finalizePartAsync returned and are alive together.
MaxFinalizers == 2
\* A call of Impl::finish that throws is one of its first MaxThrowAt calls or its last.
MaxThrowAt == 3

\* The row counts of the blocks the caller passes.
BatchRows == {0, 50}

\* columns_list of the writer, and the data file of each column.
ColumnNames == {"a", "b"}
\* A column written by a cooperating writer (vertical merge).
AdditionalColumn == "c"
\* Columns that removeEmptyColumnsFromPart may find to be all-default.
PrunableColumns == {"b"}
\* Projections of the part.
ProjectionNames == {"p"}

ColumnFile(c) == c \o ".bin"
ColumnFiles == {ColumnFile(c) : c \in ColumnNames}

VARIABLES
    pc,                             \* "writing", "prepared" (a handle was returned), "failed" (prepare threw)
    new_part,                       \* the attributes of the data part
    default_codec,                  \* TRUE iff default_codec != nullptr
    reset_columns,                  \* column pruning is enabled
    rows_count,                     \* MergedBlockOutputStream::rows_count
    new_serialization_infos,        \* number of blocks added to new_serialization_infos
    writer,                         \* the per-column writer: [state, writes, cancels]
    disk,                           \* file name -> [st, size, synced] for every file staged
    written_files,                  \* Impl::written_files, in order
    files_to_remove_after_finish,   \* Impl::files_to_remove_after_finish
    sync,                           \* Impl::sync
    handle,                         \* "absent", "alive", "destroyed": the Finalizer object
    impl,                           \* TRUE iff the Finalizer holds an Impl
    log,                            \* the calls issued by Impl::finish / Impl::cancel, in order
    checksums_txt,                  \* the map serialized into checksums.txt
    count_txt,                      \* the text written to count.txt
    hist                            \* history: blocks passed (all, their rows, the empty ones, one rejected),
                                    \* calls made, how often Impl::finish / Impl::cancel ran

\* The state of a TTLCalcTransform and of the part whose TTL infos it recalculates.
VARIABLES
    ttl_pc,                         \* "absent", "accumulating", "finished" (prepare returned Finished)
    ttl_infos,                      \* data_part->ttl_infos
    algorithms,                     \* TTLCalcTransform::algorithms, in order
    force,                          \* the force_ argument of the constructor
    ttl_hist                        \* history: the TTL infos at construction, the rules of the snapshot,
                                    \* the timestamps each rule saw

\* The variables of the part writer and of its commit handle.
stream_vars == <<pc, new_part, default_codec, reset_columns, rows_count, new_serialization_infos,
                 writer, disk, written_files, files_to_remove_after_finish, sync, handle, impl,
                 log, checksums_txt, count_txt, hist>>

transform_vars == <<ttl_pc, ttl_infos, algorithms, force, ttl_hist>>

\* The index granularity of the column writer and of the part.
VARIABLES
    writer_index_granularity,       \* writer->getIndexGranularity(): the rows of each granule, in order
    index_granularity,              \* new_part->index_granularity
    enable_index_granularity_compression,   \* the MergeTree setting
    optimized_again                 \* history: the pass was applied to the granularity of the part again

granularity_vars == <<writer_index_granularity, index_granularity,
                      enable_index_granularity_compression, optimized_again>>

\* Finalizer objects and the Impl objects they own.
VARIABLES
    finalizers,                     \* each Finalizer object: not yet constructed, alive or destroyed,
                                    \* and the Impl its unique_ptr holds (NoImpl for a null pointer)
    impls                           \* each Impl: how often finish and cancel ran on it, whether it
                                    \* has been destroyed

finalizer_vars == <<finalizers, impls>>

vars == <<stream_vars, transform_vars, granularity_vars, finalizer_vars>>

----------------------------------------------------------------------------
\* No Finalizer is moved while one part is written or TTL infos are recalculated.
NoFinalizers ==
    /\ finalizers = <<>>
    /\ impls = <<>>

----------------------------------------------------------------------------
\* Maps (std::map<String, Checksum>), as functions on their key set.

EmptyMap == [k \in {} |-> 0]
Put(m, k, v) == [x \in (DOMAIN m) \cup {k} |-> IF x = k THEN v ELSE m[x]]
Erase(m, ks) == [x \in (DOMAIN m) \ ks |-> m[x]]
Merge(m, n) == [x \in (DOMAIN m) \cup (DOMAIN n) |-> IF x \in DOMAIN n THEN n[x] ELSE m[x]]

RECURSIVE SetToSeq(_)
SetToSeq(S) == IF S = {} THEN <<>> ELSE LET x == CHOOSE y \in S : TRUE IN <<x>> \o SetToSeq(S \ {x})

Range(s) == {s[i] : i \in DOMAIN s}

\* writeIntText: the decimal digits of n, most significant first.
RECURSIVE writeIntText(_)
writeIntText(n) == IF n < 10 THEN <<n>> ELSE Append(writeIntText(n \div 10), n % 10)

----------------------------------------------------------------------------
\* The auxiliary files of a part.

UUID_FILE_NAME == "uuid.txt"
PARTITION_FILE_NAME == "partition.dat"
SOURCE_PARTS_SET_FILE_NAME == "source_parts_set"
COUNT_FILE_NAME == "count.txt"
TTL_FILE_NAME == "ttl.txt"
SERIALIZATION_FILE_NAME == "serialization.json"
COLUMNS_FILE_NAME == "columns.txt"
COLUMNS_SUBSTREAMS_FILE_NAME == "columns_substreams.txt"
METADATA_VERSION_FILE_NAME == "metadata_version.txt"
DEFAULT_COMPRESSION_CODEC_FILE_NAME == "default_compression_codec.txt"
CHECKSUMS_FILE_NAME == "checksums.txt"

\* The partition key of the table has one column, d, when the table has a key.
MinMaxColumns(part) == IF part.partition_key THEN {"d"} ELSE {}
MinMaxFile(c) == "minmax_" \o c \o ".idx"

\* Number of bytes the writer callback of each auxiliary file produces. Only
\* count.txt is modelled down to its text; the others by a length.
Bytes(filename, rows) ==
    CASE filename = COUNT_FILE_NAME -> Len(writeIntText(rows))
      [] filename = UUID_FILE_NAME -> 36
      [] filename = CHECKSUMS_FILE_NAME -> 40
      [] OTHER -> 8

\* The exceptions that leave finalizePartOnDisk.
MinMaxError == "LOGICAL_ERROR: MinMax index was not initialized for new non-empty part"
CodecError == "LOGICAL_ERROR: Compression codec have to be specified for part on disk"
IOError == "I/O error"

\* What finalizePartOnDisk has done so far: the files staged, in order (wf), the
\* bytes written to each (bytes), the checksums map (cs), the exception thrown
\* (err), how many more writeFile calls succeed before an I/O error (budget,
\* negative: no I/O error), the map written into checksums.txt and whether
\* setColumnsSubstreams was called.
StartOnDisk(checksums, budget) ==
    [wf |-> <<>>, bytes |-> EmptyMap, cs |-> checksums, err |-> "none", budget |-> budget,
     checksums_txt |-> EmptyMap, checksums_written |-> FALSE, substreams_set |-> FALSE,
     columns_substreams |-> {}]

\* getDataPartStorage().writeFile(filename, ...) followed by the writer callback,
\* preFinalize and written_files.emplace_back.
StageFile(s, filename, n) ==
    [s EXCEPT !.wf = Append(@, filename),
              !.bytes = Put(@, filename, n),
              !.budget = IF @ > 0 THEN @ - 1 ELSE @]

\* A mutant of write_hashed_file: records one byte less than was written.
write_hashed_file_short(s, filename, n) ==
    IF s.err # "none" THEN s
    ELSE IF s.budget = 0 THEN [s EXCEPT !.err = IOError]
    ELSE [StageFile(s, filename, n) EXCEPT !.cs = Put(@, filename, n - 1)]

write_hashed_file(s, filename, n) ==
    IF s.err # "none" THEN s
    ELSE IF s.budget = 0 THEN [s EXCEPT !.err = IOError]
    ELSE [StageFile(s, filename, n) EXCEPT !.cs = Put(@, filename, n)]

\* A mutant of write_plain_file: a plain file gets a checksum entry too.
write_plain_file_hashed(s, filename, n) ==
    write_hashed_file(s, filename, n)

write_plain_file(s, filename, n) ==
    IF s.err # "none" THEN s
    ELSE IF s.budget = 0 THEN [s EXCEPT !.err = IOError]
    ELSE StageFile(s, filename, n)

Throw(s, what) == IF s.err # "none" THEN s ELSE [s EXCEPT !.err = what]

\* MergeTreePartition::store: writes partition.dat and its checksum when the
\* table has a partition key, and returns no file otherwise.
partition_store(s, part) ==
    IF part.partition_key THEN write_hashed_file(s, PARTITION_FILE_NAME, 8) ELSE s

\* MinMaxIndex::store: one hashed file per column of the partition key.
RECURSIVE minmax_idx_store(_, _)
minmax_idx_store(s, cols) ==
    IF cols = <<>> THEN s
    ELSE minmax_idx_store(write_hashed_file(s, MinMaxFile(Head(cols)), 8), Tail(cols))

\* ColumnsSubstreams::merge: the substreams of the writer and of the cooperating
\* writers, restricted to the columns of the part.
ColumnsSubstreams_merge(writer_substreams, additional, column_names) ==
    (writer_substreams \cup additional) \cap column_names

\* A mutant of store_minmax: an uninitialized index is rejected even for an empty part.
store_minmax_rejects_empty(s, part, rows) ==
    IF part.minmax_initialized THEN minmax_idx_store(s, SetToSeq(MinMaxColumns(part)))
    ELSE Throw(s, MinMaxError)

\* A mutant of store_minmax: an uninitialized index is never an error.
store_minmax_accepts_uninitialized(s, part, rows) ==
    IF part.minmax_initialized THEN minmax_idx_store(s, SetToSeq(MinMaxColumns(part)))
    ELSE s

\* The min-max index of the part is stored if it was initialized; a part with
\* rows and no initialized index is a logical error.
store_minmax(s, part, rows) ==
    IF part.minmax_initialized THEN minmax_idx_store(s, SetToSeq(MinMaxColumns(part)))
    ELSE IF rows # 0 THEN Throw(s, MinMaxError)
    ELSE s

\* The steps of finalizePartOnDisk, in source order. Each takes what was done so
\* far and does nothing once an exception was thrown.

\* A mutant of stage_uuid: a projection part gets its uuid.txt too.
stage_uuid_for_projection(s, part, rows) ==
    IF ~part.uuid_nil
    THEN write_hashed_file(s, UUID_FILE_NAME, Bytes(UUID_FILE_NAME, rows)) ELSE s

\* uuid.txt, for a part that is no projection and has a UUID.
stage_uuid(s, part, rows) ==
    IF ~part.is_projection /\ ~part.uuid_nil
    THEN write_hashed_file(s, UUID_FILE_NAME, Bytes(UUID_FILE_NAME, rows)) ELSE s

\* A mutant of stage_partition: the partition and the min-max index are stored
\* for every part.
stage_partition_always(s, part, rows) ==
    store_minmax(partition_store(s, part), part, rows)

\* The partition file and the min-max index, in the format with custom partitioning.
stage_partition(s, part, rows) ==
    IF ~part.is_projection /\ part.format_custom
    THEN store_minmax(partition_store(s, part), part, rows) ELSE s

\* source_parts_set, for a part made by applying patches.
stage_source_parts(s, part, rows) ==
    IF ~part.is_projection /\ part.format_custom /\ part.source_parts
    THEN write_hashed_file(s, SOURCE_PARTS_SET_FILE_NAME, Bytes(SOURCE_PARTS_SET_FILE_NAME, rows)) ELSE s

stage_count(s, rows) ==
    write_hashed_file(s, COUNT_FILE_NAME, Bytes(COUNT_FILE_NAME, rows))

stage_ttl(s, part, rows) ==
    IF part.ttl_infos THEN write_hashed_file(s, TTL_FILE_NAME, Bytes(TTL_FILE_NAME, rows)) ELSE s

stage_serialization(s, part, rows) ==
    IF part.serialization_infos # {}
    THEN write_hashed_file(s, SERIALIZATION_FILE_NAME, Bytes(SERIALIZATION_FILE_NAME, rows)) ELSE s

stage_columns(s, rows) ==
    write_plain_file(s, COLUMNS_FILE_NAME, Bytes(COLUMNS_FILE_NAME, rows))

\* new_part->setColumnsSubstreams(columns_substreams), once the file is staged.
setColumnsSubstreams(w, columns_substreams) ==
    IF w.err = "none"
    THEN [w EXCEPT !.substreams_set = TRUE, !.columns_substreams = columns_substreams] ELSE w

stage_substreams(s, columns_substreams, rows) ==
    IF columns_substreams = {} THEN s
    ELSE setColumnsSubstreams(
            write_plain_file(s, COLUMNS_SUBSTREAMS_FILE_NAME, Bytes(COLUMNS_SUBSTREAMS_FILE_NAME, rows)),
            columns_substreams)

stage_metadata_version(s, rows) ==
    write_plain_file(s, METADATA_VERSION_FILE_NAME, Bytes(METADATA_VERSION_FILE_NAME, rows))

\* A mutant of stage_codec: without a codec the file is left out.
stage_codec_optional(s, codec, rows) ==
    IF codec
    THEN write_plain_file(s, DEFAULT_COMPRESSION_CODEC_FILE_NAME, Bytes(DEFAULT_COMPRESSION_CODEC_FILE_NAME, rows))
    ELSE s

\* default_compression_codec.txt; a writer without a codec is a logical error.
stage_codec(s, codec, rows) ==
    IF codec
    THEN write_plain_file(s, DEFAULT_COMPRESSION_CODEC_FILE_NAME, Bytes(DEFAULT_COMPRESSION_CODEC_FILE_NAME, rows))
    ELSE Throw(s, CodecError)

\* checksums.write(buffer): the file holds the map as it is at that moment.
checksums_write(s, w) ==
    IF s.err = "none" /\ w.err = "none"
    THEN [w EXCEPT !.checksums_txt = s.cs, !.checksums_written = TRUE] ELSE w

stage_checksums(s, rows) ==
    checksums_write(s, write_plain_file(s, CHECKSUMS_FILE_NAME, Bytes(CHECKSUMS_FILE_NAME, rows)))

\* finalizePartOnDisk: stages the auxiliary files of new_part in a fixed order,
\* checksums.txt last, and stops at the first exception.
finalizePartOnDisk(part, checksums, rows, codec, writer_substreams, additional_columns_substreams, budget) ==
    stage_checksums(
     stage_codec(
      stage_metadata_version(
       stage_substreams(
        stage_columns(
         stage_serialization(
          stage_ttl(
           stage_count(
            stage_source_parts(
             stage_partition(
              stage_uuid(StartOnDisk(checksums, budget), part, rows),
              part, rows),
             part, rows),
            rows),
           part, rows),
          part, rows),
         rows),
        ColumnsSubstreams_merge(writer_substreams, additional_columns_substreams, part.columns), rows),
       rows),
      codec, rows),
     rows)

----------------------------------------------------------------------------
\* TTL infos (MergeTreeDataPartTTLInfos) and the state without a TTLCalcTransform.

EmptyTTLInfo == [min |-> 0, max |-> 0]

\* The kinds of TTL rule that keep one info per result column.
KeyedFields == {"ROWS_WHERE_TTL", "GROUP_BY_TTL", "COLUMNS_TTL", "MOVES_TTL", "RECOMPRESSION_TTL"}

\* ttl_infos = {}: no bounds for the rows TTL and no entry in any map.
EmptyTTLInfos == [table_ttl |-> EmptyTTLInfo, maps |-> [f \in KeyedFields |-> EmptyMap]]

\* No TTLCalcTransform runs while the part is written.
NoTransform ==
    /\ ttl_pc = "absent"
    /\ ttl_infos = EmptyTTLInfos
    /\ algorithms = <<>>
    /\ force = FALSE
    /\ ttl_hist = [rules |-> {}]

----------------------------------------------------------------------------
\* Index granularity (MergeTreeIndexGranularity): the rows of each granule, kept
\* mark by mark (adaptive) or as a constant with the last mark (constant).

NoMarks == [kind |-> "none", marks_rows |-> <<>>, constant_granularity |-> 0,
            last_mark_granularity |-> 0, num_marks_without_final |-> 0, has_final_mark |-> FALSE]

\* optimize() returns no new representation.
NullGranularity == [NoMarks EXCEPT !.kind = "null"]

Adaptive(marks_rows) == [NoMarks EXCEPT !.kind = "adaptive", !.marks_rows = marks_rows]

Constant(constant_granularity, last_mark_granularity, num_marks_without_final, has_final_mark) ==
    [NoMarks EXCEPT !.kind = "constant",
                    !.constant_granularity = constant_granularity,
                    !.last_mark_granularity = last_mark_granularity,
                    !.num_marks_without_final = num_marks_without_final,
                    !.has_final_mark = has_final_mark]

\* The index granularity is not looked at while the part is written or its TTL
\* infos are recalculated.
NoGranularity ==
    /\ writer_index_granularity = <<>>
    /\ index_granularity = NoMarks
    /\ enable_index_granularity_compression = FALSE
    /\ optimized_again = FALSE

----------------------------------------------------------------------------
\* Construction.

File(st, size) == [st |-> st, size |-> size, synced |-> FALSE]

\* The attributes a part may have besides the plain ones: it is a projection
\* part, its storage has the format before custom partitioning, the table has no
\* partition key, its UUID is nil, it has a source-parts set (it was made by
\* applying patches), it has TTL infos, it has non-default serialization infos,
\* a column of the writer has substreams, the caller has not initialized its
\* min-max index.
Attrs == {"projection", "old_format", "no_partition_key", "nil_uuid", "source_parts", "ttl", "sparse",
          "substreams", "minmax_uninitialized"}

\* A projection part and a part of a storage in the old format come with their
\* min-max index initialized or not.
MinMaxInitialized(as) ==
    IF "minmax_uninitialized" \in as THEN {FALSE}
    ELSE IF as \cap {"projection", "old_format"} # {} THEN BOOLEAN
    ELSE {TRUE}

\* The part before the writer is constructed. Its attributes are whatever the
\* caller prepared (at most MaxAttrs of Attrs); the files of cooperating writers
\* and of the projections are already in the part directory.
InitPart ==
    {[uuid_nil |-> "nil_uuid" \in as,
      is_projection |-> "projection" \in as,
      format_custom |-> "old_format" \notin as,
      partition_key |-> "no_partition_key" \notin as,
      minmax_initialized |-> initialized,
      source_parts |-> "source_parts" \in as,
      ttl_infos |-> "ttl" \in as,
      serialization_infos |-> IF "sparse" \in as THEN PrunableColumns ELSE {},
      columns |-> ColumnNames, columns_substreams |-> {},
      projections |-> IF "projection" \in as THEN {} ELSE ProjectionNames,
      rows_count |-> 0, checksums |-> EmptyMap, bytes_on_disk |-> 0,
      existing_rows_count |-> [has_value |-> FALSE, value |-> 0],
      default_codec |-> FALSE, attrs |-> as] :
        <<as, initialized>> \in
            UNION {{<<x, i>> : i \in MinMaxInitialized(x)} :
                        x \in {y \in SUBSET Attrs : Cardinality(y) <= MaxAttrs}}}

PreExistingFiles == {ColumnFile(AdditionalColumn)} \cup {n \o ".proj" : n \in ProjectionNames}

\* The version metadata of the part, which the constructor stores: it is written
\* at once, not staged with the files the writer and the prepare leave pending.
VERSION_FILE_NAME == "txn_version.txt"

\* MergedBlockOutputStream::MergedBlockOutputStream: creates the directory, stores
\* the version metadata and creates the per-column writer, which opens one
\* stream per column.
Init ==
    /\ pc = "writing"
    /\ new_part \in InitPart
    /\ default_codec \in BOOLEAN
    /\ reset_columns \in BOOLEAN
    /\ rows_count = 0
    /\ new_serialization_infos = 0
    /\ writer = [state |-> "open", writes |-> 0, cancels |-> 0, finishes |-> 0,
                 substreams |-> IF "substreams" \in new_part.attrs THEN {"a"} ELSE {}]
    /\ disk = [f \in ColumnFiles \cup PreExistingFiles \cup {VERSION_FILE_NAME} |->
                  IF f \in ColumnFiles THEN File("pending", 0) ELSE File("finalized", 8)]
    /\ written_files = <<>>
    /\ files_to_remove_after_finish = {}
    /\ sync = FALSE
    /\ handle = "absent"
    /\ impl = FALSE
    /\ log = <<>>
    /\ checksums_txt = EmptyMap
    /\ count_txt = <<>>
    /\ hist = [writes |-> 0, sum |-> 0, empty |-> 0, rejected |-> FALSE, calls |-> 0,
               checksums_to_remove |-> {},
               impl_finish |-> 0, impl_cancel |-> 0, prepare_error |-> "none", finish_error |-> FALSE]
    /\ NoTransform
    /\ NoGranularity
    /\ NoFinalizers

----------------------------------------------------------------------------
\* write and writeWithPermutation.

\* IMergeTreeDataPartWriter::write: appends the rows, in the order the
\* permutation gives when there is one, to the stream of each column.
writer_write(rows, permutation) ==
    /\ writer' = [writer EXCEPT !.writes = @ + 1]
    /\ disk' = [f \in DOMAIN disk |->
                  IF f \in ColumnFiles THEN [disk[f] EXCEPT !.size = @ + rows] ELSE disk[f]]

\* What the history records of a block that checkNumberOfRows rejects, and of an
\* empty block.
Rejected == [hist EXCEPT !.writes = @ + 1, !.rejected = TRUE]
Empty == [hist EXCEPT !.writes = @ + 1, !.empty = @ + 1]
Accepted(rows) == [hist EXCEPT !.writes = @ + 1, !.sum = @ + rows]

\* A mutant of writeImpl: the row counter counts blocks, not rows.
writeImpl_counts_blocks(rows, consistent, permutation) ==
    IF ~consistent
    THEN /\ hist' = Rejected
         /\ UNCHANGED <<rows_count, new_serialization_infos, writer, disk>>
    ELSE IF rows = 0
    THEN /\ hist' = Empty
         /\ UNCHANGED <<rows_count, new_serialization_infos, writer, disk>>
    ELSE /\ writer_write(rows, permutation)
         /\ new_serialization_infos' = IF reset_columns THEN new_serialization_infos + 1
                                       ELSE new_serialization_infos
         /\ rows_count' = rows_count + 1
         /\ hist' = Accepted(rows)

\* A mutant of writeImpl: the number of rows is checked after the block was
\* handed to the column writer.
writeImpl_checks_late(rows, consistent, permutation) ==
    IF rows = 0
    THEN /\ hist' = IF consistent THEN Empty ELSE Rejected
         /\ UNCHANGED <<rows_count, new_serialization_infos, writer, disk>>
    ELSE /\ writer_write(rows, permutation)
         /\ new_serialization_infos' = IF reset_columns THEN new_serialization_infos + 1
                                       ELSE new_serialization_infos
         /\ rows_count' = IF consistent THEN rows_count + rows ELSE rows_count
         /\ hist' = IF consistent THEN Accepted(rows) ELSE Rejected

\* A mutant of writeImpl: an empty block is written like any other.
writeImpl_writes_empty(rows, consistent, permutation) ==
    IF ~consistent
    THEN /\ hist' = Rejected
         /\ UNCHANGED <<rows_count, new_serialization_infos, writer, disk>>
    ELSE /\ writer_write(rows, permutation)
         /\ new_serialization_infos' = IF reset_columns THEN new_serialization_infos + 1
                                       ELSE new_serialization_infos
         /\ rows_count' = rows_count + rows
         /\ hist' = IF rows = 0 THEN Empty ELSE Accepted(rows)

\* writeImpl(block, permutation): `rows` is block.rows(), `consistent` is whether
\* block.checkNumberOfRows() passes (it throws otherwise).
writeImpl(rows, consistent, permutation) ==
    IF ~consistent
    THEN /\ hist' = Rejected
         /\ UNCHANGED <<rows_count, new_serialization_infos, writer, disk>>
    ELSE IF rows = 0
    THEN /\ hist' = Empty
         /\ UNCHANGED <<rows_count, new_serialization_infos, writer, disk>>
    ELSE /\ writer_write(rows, permutation)
         /\ new_serialization_infos' = IF reset_columns THEN new_serialization_infos + 1
                                       ELSE new_serialization_infos
         /\ rows_count' = rows_count + rows
         /\ hist' = Accepted(rows)

\* The caller writes while it holds the open writer and has not finalized. The
\* logical error of a rejected block aborts the construction of the part: the
\* caller neither writes nor finalizes after it.
CanWrite == pc = "writing" /\ writer.state = "open" /\ ~hist.rejected /\ hist.writes < MaxWrites

\* write(block): the data is pre-sorted.
write ==
    /\ CanWrite
    /\ \E rows \in BatchRows, consistent \in BOOLEAN : writeImpl(rows, consistent, FALSE)
    /\ UNCHANGED <<pc, new_part, default_codec, reset_columns, written_files,
                   files_to_remove_after_finish, sync, handle, impl, log, checksums_txt, count_txt>>
    /\ UNCHANGED <<transform_vars, granularity_vars, finalizer_vars>>

\* writeWithPermutation(block, permutation).
writeWithPermutation ==
    /\ CanWrite
    /\ \E rows \in BatchRows, consistent \in BOOLEAN : writeImpl(rows, consistent, TRUE)
    /\ UNCHANGED <<pc, new_part, default_codec, reset_columns, written_files,
                   files_to_remove_after_finish, sync, handle, impl, log, checksums_txt, count_txt>>
    /\ UNCHANGED <<transform_vars, granularity_vars, finalizer_vars>>

----------------------------------------------------------------------------
\* finalizePartAsync.

\* IMergeTreeDataPartWriter::fillChecksums: finishes the serialization of the
\* columns and adds one entry per column file, with the bytes written to it.
fillChecksums(checksums) ==
    Merge(checksums, [f \in ColumnFiles |-> disk[f].size])

\* Names the column writer may report in checksums_to_remove.
WriterRemovable == {ColumnFile("b")}

\* removeEmptyColumnsFromPart: drops the empty columns from the column list and
\* the serialization infos, erases the checksums of their files and returns the
\* files to delete. A file without a checksum entry is not on disk and is not returned.
removeEmptyColumnsFromPart(empty_columns, part_columns, serialization_infos, checksums) ==
    LET remove_files == {ColumnFile(c) : c \in empty_columns} \cap DOMAIN checksums
    IN  [columns |-> part_columns \ empty_columns,
         serialization_infos |-> serialization_infos \ empty_columns,
         checksums |-> Erase(checksums, remove_files),
         files |-> remove_files]

\* A mutant of BeforeOnDisk: the columns are reset whatever reset_columns says.
BeforeOnDisk_always_resets(additional_column_checksums, checksums_to_remove, total_columns_list, empty_columns) ==
    LET c0 == additional_column_checksums
        c1 == fillChecksums(c0)
        c2 == Erase(c1, checksums_to_remove)
        c3 == Merge(c2, [f \in {n \o ".proj" : n \in new_part.projections} |-> disk[f].size])
        part_columns == IF total_columns_list = {} THEN ColumnNames ELSE total_columns_list
        pruned == removeEmptyColumnsFromPart(empty_columns, part_columns,
                                             new_part.serialization_infos, c3)
    IN  [checksums |-> pruned.checksums, files_to_remove_after_sync |-> pruned.files,
         part |-> [new_part EXCEPT !.columns = pruned.columns,
                                   !.serialization_infos = pruned.serialization_infos]]

\* The checksums and the column list as they stand when finalizePartOnDisk is
\* called (source lines 205-236).
BeforeOnDisk(additional_column_checksums, checksums_to_remove, total_columns_list, empty_columns) ==
    LET c0 == additional_column_checksums
        c1 == fillChecksums(c0)
        c2 == Erase(c1, checksums_to_remove)
        c3 == Merge(c2, [f \in {n \o ".proj" : n \in new_part.projections} |-> disk[f].size])
        part_columns == IF total_columns_list = {} THEN ColumnNames ELSE total_columns_list
        pruned == removeEmptyColumnsFromPart(empty_columns, part_columns,
                                             new_part.serialization_infos, c3)
    IN  IF reset_columns
        THEN [checksums |-> pruned.checksums, files_to_remove_after_sync |-> pruned.files,
              part |-> [new_part EXCEPT !.columns = pruned.columns,
                                        !.serialization_infos = pruned.serialization_infos]]
        ELSE [checksums |-> c3, files_to_remove_after_sync |-> {}, part |-> new_part]

\* The files finalizePartOnDisk staged, as the part directory sees them.
Staged(d, on_disk, st) ==
    [f \in (DOMAIN d) \cup Range(on_disk.wf) |->
        IF f \in Range(on_disk.wf) THEN File(st, on_disk.bytes[f]) ELSE d[f]]

SumSizes(m) ==
    LET RECURSIVE Sum(_)
        Sum(ks) == IF ks = {} THEN 0 ELSE LET k == CHOOSE x \in ks : TRUE IN m[k] + Sum(ks \ {k})
    IN  Sum(DOMAIN m)

\* new_part->setColumnsSubstreams takes effect on the part when it was called.
WithSubstreams(part, on_disk) ==
    IF on_disk.substreams_set
    THEN [part EXCEPT !.columns_substreams = on_disk.columns_substreams] ELSE part

\* The assignments to new_part after finalizePartOnDisk returned (source lines 241-267);
\* the index granularity is followed by finalizePartAsync_index_granularity.
AssignPart(part, on_disk) ==
    [part EXCEPT
        !.rows_count = rows_count,
        !.checksums = on_disk.cs,
        !.bytes_on_disk = SumSizes(on_disk.cs),
        !.existing_rows_count = IF @.has_value THEN @ ELSE [has_value |-> TRUE, value |-> rows_count],
        !.default_codec = IF default_codec THEN TRUE ELSE @]

\* The end of finalizePartAsync: an exception of finalizePartOnDisk leaves it
\* and destroys the local written_files; otherwise the part gets its
\* attributes and the Finalizer is returned.
ReturnFinalizer(sync_, checksums_to_remove, before, on_disk) ==
    IF on_disk.err # "none"
    THEN /\ pc' = "failed"
         /\ new_part' = WithSubstreams(before.part, on_disk)
         /\ disk' = Staged(disk, on_disk, "abandoned")
         /\ hist' = [hist EXCEPT !.prepare_error = on_disk.err]
         /\ count_txt' = IF COUNT_FILE_NAME \in Range(on_disk.wf) THEN writeIntText(rows_count)
                         ELSE count_txt
         /\ UNCHANGED <<written_files, files_to_remove_after_finish, sync, handle, impl,
                        checksums_txt>>
    ELSE /\ pc' = "prepared"
         /\ new_part' = AssignPart(WithSubstreams(before.part, on_disk), on_disk)
         /\ disk' = Staged(disk, on_disk, "pending")
         /\ written_files' = on_disk.wf
         /\ files_to_remove_after_finish' = before.files_to_remove_after_sync
         /\ sync' = sync_
         /\ handle' = "alive"
         /\ impl' = TRUE
         /\ checksums_txt' = on_disk.checksums_txt
         /\ count_txt' = writeIntText(rows_count)
         /\ hist' = [hist EXCEPT !.checksums_to_remove = checksums_to_remove]

OnDisk(before, additional_columns_substreams, budget) ==
    finalizePartOnDisk(before.part, before.checksums, rows_count, default_codec,
                       writer.substreams, additional_columns_substreams, budget)

Finalize(sync_, checksums_to_remove, before, additional_columns_substreams, budget) ==
    ReturnFinalizer(sync_, checksums_to_remove, before,
                    OnDisk(before, additional_columns_substreams, budget))

\* finalizePartAsync(new_part, sync, total_columns_list, additional_column_checksums,
\* additional_columns_substreams). An absent total_columns_list is {}, an absent
\* additional_column_checksums the empty map; checksums_to_remove is what the
\* column writer reports, empty_columns the columns found empty, budget the
\* number of writeFile calls that succeed before an I/O error (negative: none).
finalizePartAsync(sync_, total_columns_list, additional_column_checksums, additional_columns_substreams, checksums_to_remove, empty_columns, budget) ==
    Finalize(sync_, checksums_to_remove,
             BeforeOnDisk(additional_column_checksums, checksums_to_remove,
                          total_columns_list, empty_columns),
             additional_columns_substreams, budget)

\* What a vertical merge passes besides new_part and sync: the total column
\* list, the checksums and the substreams of the columns the cooperating
\* writers wrote. Other callers pass none of the three.
Additional(vertical) ==
    IF vertical
    THEN [total_columns_list |-> ColumnNames \cup {AdditionalColumn},
          checksums |-> [f \in {ColumnFile(AdditionalColumn)} |-> disk[f].size],
          substreams |-> {AdditionalColumn}]
    ELSE [total_columns_list |-> {}, checksums |-> EmptyMap, substreams |-> {}]

\* The caller finalizes once, after its last write.
CanPrepare == pc = "writing" /\ writer.state = "open" /\ ~hist.rejected

\* finalizePartAsync without an I/O error.
Prepare ==
    /\ CanPrepare
    /\ \E sync_ \in BOOLEAN, vertical \in BOOLEAN,
          checksums_to_remove \in SUBSET WriterRemovable,
          empty_columns \in IF reset_columns THEN SUBSET PrunableColumns ELSE {{}} :
            finalizePartAsync(sync_, Additional(vertical).total_columns_list,
                              Additional(vertical).checksums, Additional(vertical).substreams,
                              checksums_to_remove, empty_columns, -1)
    /\ UNCHANGED <<default_codec, reset_columns, rows_count, new_serialization_infos, writer, log>>
    /\ UNCHANGED <<transform_vars, granularity_vars, finalizer_vars>>

\* The number of files finalizePartAsync stages when no writeFile fails.
FilesOfPrepare(empty_columns) ==
    Len(OnDisk(BeforeOnDisk(EmptyMap, {}, {}, empty_columns), {}, -1).wf)

\* finalizePartAsync where the writeFile call after `budget` staged files raises
\* an I/O error.
PrepareIOError ==
    /\ CanPrepare
    /\ \E empty_columns \in IF reset_columns THEN SUBSET PrunableColumns ELSE {{}} :
          \E budget \in 0..(FilesOfPrepare(empty_columns) - 1) :
            finalizePartAsync(FALSE, {}, EmptyMap, {}, {}, empty_columns, budget)
    /\ UNCHANGED <<default_codec, reset_columns, rows_count, new_serialization_infos, writer, log>>
    /\ UNCHANGED <<transform_vars, granularity_vars, finalizer_vars>>

----------------------------------------------------------------------------
\* The commit handle: Finalizer and Finalizer::Impl.

Op(op, file) == [op |-> op, file |-> file]

RECURSIVE FinalizeOps(_, _)

\* A mutant of FinalizeOps: the files are synced after all of them were finalized.
FinalizeOps_syncs_at_end(files, sync_) ==
    [i \in 1..Len(files) |-> Op("finalize", files[i])]
    \o (IF sync_ THEN [i \in 1..Len(files) |-> Op("sync", files[i])] ELSE <<>>)

\* The finalize of each pending file, in order, each followed by its sync if asked for.
FinalizeOps(files, sync_) ==
    IF files = <<>> THEN <<>>
    ELSE (IF sync_ THEN <<Op("finalize", Head(files)), Op("sync", Head(files))>>
                   ELSE <<Op("finalize", Head(files))>>) \o FinalizeOps(Tail(files), sync_)

RemoveOps(names) == [i \in 1..Len(names) |-> Op("removeFile", names[i])]

\* A mutant of ImplFinishOps: the files are removed inside the first
\* transaction, before the pending files are finalized.
ImplFinishOps_remove_first ==
    <<Op("writer.finish", "")>>
    \o RemoveOps(SetToSeq(files_to_remove_after_finish))
    \o FinalizeOps(written_files, sync)

\* A mutant of ImplFinishOps: checksums.txt is finalized first.
ImplFinishOps_reversed ==
    <<Op("writer.finish", "")>>
    \o FinalizeOps([i \in 1..Len(written_files) |-> written_files[Len(written_files) + 1 - i]], sync)
    \o (IF files_to_remove_after_finish # {}
        THEN <<Op("commitTransaction", ""), Op("beginTransaction", "")>> ELSE <<>>)
    \o RemoveOps(SetToSeq(files_to_remove_after_finish))

\* The calls Impl::finish makes when none of them throws, in order.
ImplFinishOps ==
    <<Op("writer.finish", "")>>
    \o FinalizeOps(written_files, sync)
    \o (IF files_to_remove_after_finish # {}
        THEN <<Op("commitTransaction", ""), Op("beginTransaction", "")>> ELSE <<>>)
    \o RemoveOps(SetToSeq(files_to_remove_after_finish))

\* A mutant of ImplCancelOps: cancel also deletes the files of the pruned columns.
ImplCancelOps_removes ==
    <<Op("writer.cancel", "")>> \o [i \in 1..Len(written_files) |-> Op("cancel", written_files[i])]
    \o RemoveOps(SetToSeq(files_to_remove_after_finish))

\* The calls Impl::cancel makes, in order; none of them throws.
ImplCancelOps ==
    <<Op("writer.cancel", "")>> \o [i \in 1..Len(written_files) |-> Op("cancel", written_files[i])]

\* The effect of one call on the part directory. The column writer finalizes
\* (or cancels) the streams of its columns; a stream that is no longer pending
\* is left as it is.
ApplyOp(d, o) ==
    CASE o.op = "writer.finish" ->
            [f \in DOMAIN d |-> IF f \in ColumnFiles /\ d[f].st = "pending"
                                THEN [d[f] EXCEPT !.st = "finalized", !.synced = sync] ELSE d[f]]
      [] o.op = "writer.cancel" ->
            [f \in DOMAIN d |-> IF f \in ColumnFiles /\ d[f].st = "pending"
                                THEN [d[f] EXCEPT !.st = "cancelled"] ELSE d[f]]
      [] o.op = "finalize" -> [d EXCEPT ![o.file].st = "finalized"]
      [] o.op = "sync" -> [d EXCEPT ![o.file].synced = TRUE]
      [] o.op = "cancel" -> [d EXCEPT ![o.file].st = "cancelled"]
      [] o.op = "removeFile" -> [d EXCEPT ![o.file].st = "removed"]
      [] OTHER -> d

RECURSIVE ApplyOps(_, _)
ApplyOps(d, ops) == IF ops = <<>> THEN d ELSE ApplyOps(ApplyOp(d, Head(ops)), Tail(ops))

\* ~Impl: the buffers of written_files that were neither finalized nor
\* cancelled are destroyed as they are.
DestroyImpl(d) ==
    [f \in DOMAIN d |-> IF f \in Range(written_files) /\ d[f].st = "pending"
                        THEN [d[f] EXCEPT !.st = "abandoned"] ELSE d[f]]

WriterAfter(ops) ==
    IF \E i \in DOMAIN ops : ops[i].op = "writer.finish"
    THEN [writer EXCEPT !.state = "finished", !.finishes = @ + 1]
    ELSE IF \E i \in DOMAIN ops : ops[i].op = "writer.cancel"
    THEN [writer EXCEPT !.state = "cancelled", !.cancels = @ + 1]
    ELSE writer

\* The numbers of calls of Impl::finish that may return before one throws; all
\* n of them return when none throws.
FinishOutcomes(n) == {done \in 0..n : done < MaxThrowAt \/ done >= n - 1}

\* Impl::finish, where the first `done` calls return and the next one, if there
\* is one, throws. The Impl is destroyed when Finalizer::finish is left.
ImplFinish(done) ==
    LET ops == SubSeq(ImplFinishOps, 1, done)
    IN  /\ log' = log \o ops
        /\ disk' = DestroyImpl(ApplyOps(disk, ops))
        /\ writer' = WriterAfter(ops)
        /\ hist' = [hist EXCEPT !.calls = @ + 1, !.impl_finish = @ + 1,
                                !.finish_error = (done < Len(ImplFinishOps))]

\* A mutant of ImplCancel: the last pending file is not cancelled.
ImplCancel_skips_last ==
    LET ops == SubSeq(ImplCancelOps, 1, Len(ImplCancelOps) - 1)
    IN  /\ log' = log \o ops
        /\ disk' = DestroyImpl(ApplyOps(disk, ops))
        /\ writer' = WriterAfter(ops)

\* A mutant of ImplCancel: cancel commits what was staged.
ImplCancel_finishes ==
    /\ log' = log \o ImplFinishOps
    /\ disk' = DestroyImpl(ApplyOps(disk, ImplFinishOps))
    /\ writer' = WriterAfter(ImplFinishOps)

\* Impl::cancel.
ImplCancel ==
    /\ log' = log \o ImplCancelOps
    /\ disk' = DestroyImpl(ApplyOps(disk, ImplCancelOps))
    /\ writer' = WriterAfter(ImplCancelOps)

\* A mutant of FinalizerFinish: the handle keeps its Impl.
FinalizerFinish_keeps_impl ==
    /\ handle = "alive"
    /\ hist.calls < MaxCalls
    /\ writer.state = "open" \/ ~impl
    /\ IF impl
       THEN \E done \in FinishOutcomes(Len(ImplFinishOps)) : ImplFinish(done)
       ELSE /\ hist' = [hist EXCEPT !.calls = @ + 1]
            /\ UNCHANGED <<log, disk, writer>>
    /\ UNCHANGED <<impl, pc, new_part, default_codec, reset_columns, rows_count, new_serialization_infos,
                   written_files, files_to_remove_after_finish, sync, handle, checksums_txt, count_txt>>
    /\ UNCHANGED <<transform_vars, granularity_vars, finalizer_vars>>

\* A mutant of FinalizerFinish: the handle gives up its Impl only when
\* Impl::finish returns.
FinalizerFinish_resets_on_success ==
    /\ handle = "alive"
    /\ hist.calls < MaxCalls
    /\ writer.state = "open" \/ ~impl
    /\ IF impl
       THEN \E done \in FinishOutcomes(Len(ImplFinishOps)) : ImplFinish(done)
       ELSE /\ hist' = [hist EXCEPT !.calls = @ + 1]
            /\ UNCHANGED <<log, disk, writer>>
    /\ impl' = (impl /\ hist'.finish_error)
    /\ UNCHANGED <<pc, new_part, default_codec, reset_columns, rows_count, new_serialization_infos,
                   written_files, files_to_remove_after_finish, sync, handle, checksums_txt, count_txt>>
    /\ UNCHANGED <<transform_vars, granularity_vars, finalizer_vars>>

\* Finalizer::finish: moves the Impl out of the handle and runs Impl::finish on it.
\* The caller finishes a handle only while the column writer is open.
FinalizerFinish ==
    /\ handle = "alive"
    /\ hist.calls < MaxCalls
    /\ writer.state = "open" \/ ~impl
    /\ IF impl
       THEN \E done \in FinishOutcomes(Len(ImplFinishOps)) : ImplFinish(done)
       ELSE /\ hist' = [hist EXCEPT !.calls = @ + 1]
            /\ UNCHANGED <<log, disk, writer>>
    /\ impl' = FALSE
    /\ UNCHANGED <<pc, new_part, default_codec, reset_columns, rows_count, new_serialization_infos,
                   written_files, files_to_remove_after_finish, sync, handle, checksums_txt, count_txt>>
    /\ UNCHANGED <<transform_vars, granularity_vars, finalizer_vars>>

\* Finalizer::cancel: moves the Impl out of the handle and runs Impl::cancel on it.
FinalizerCancel ==
    /\ handle = "alive"
    /\ hist.calls < MaxCalls
    /\ IF impl
       THEN /\ ImplCancel
            /\ hist' = [hist EXCEPT !.calls = @ + 1, !.impl_cancel = @ + 1]
       ELSE /\ hist' = [hist EXCEPT !.calls = @ + 1]
            /\ UNCHANGED <<log, disk, writer>>
    /\ impl' = FALSE
    /\ UNCHANGED <<pc, new_part, default_codec, reset_columns, rows_count, new_serialization_infos,
                   written_files, files_to_remove_after_finish, sync, handle, checksums_txt, count_txt>>
    /\ UNCHANGED <<transform_vars, granularity_vars, finalizer_vars>>

\* Finalizer::~Finalizer: cancels if the handle still holds its Impl.
FinalizerDestroy ==
    /\ handle = "alive"
    /\ handle' = "destroyed"
    /\ IF impl
       THEN /\ ImplCancel
            /\ hist' = [hist EXCEPT !.impl_cancel = @ + 1]
       ELSE UNCHANGED <<log, disk, writer, hist>>
    /\ impl' = FALSE
    /\ UNCHANGED <<pc, new_part, default_codec, reset_columns, rows_count, new_serialization_infos,
                   written_files, files_to_remove_after_finish, sync, checksums_txt, count_txt>>
    /\ UNCHANGED <<transform_vars, granularity_vars, finalizer_vars>>

\* MergedBlockOutputStream::cancel: cancels the column writer. The caller
\* calls it at most once.
StreamCancel ==
    /\ writer.state = "open"
    /\ writer' = WriterAfter(<<Op("writer.cancel", "")>>)
    /\ disk' = ApplyOp(disk, Op("writer.cancel", ""))
    /\ UNCHANGED <<pc, new_part, default_codec, reset_columns, rows_count, new_serialization_infos,
                   written_files, files_to_remove_after_finish, sync, handle, impl, log,
                   checksums_txt, count_txt, hist>>
    /\ UNCHANGED <<transform_vars, granularity_vars, finalizer_vars>>

Next ==
    \/ write
    \/ writeWithPermutation
    \/ Prepare
    \/ PrepareIOError
    \/ FinalizerFinish
    \/ FinalizerCancel
    \/ FinalizerDestroy
    \/ StreamCancel

Spec == Init /\ [][Next]_vars

----------------------------------------------------------------------------
\* TTLCalcTransform: recalculates the TTL infos of a part from the rows it consumes.

TTLRule(field, key) == [field |-> field, key |-> key]

\* A TTLDescription of the metadata snapshot with the name of its result column;
\* getColumnTTLs() pairs the description of a column TTL with the name of the
\* column, which no other kind has.
NoColumn == ""
TTLDescription(field, result_column, name) ==
    [field |-> field, result_column |-> result_column, name |-> name]

\* The descriptions a metadata snapshot may hold, one of each kind.
AllDescriptions ==
    {TTLDescription("TABLE_TTL", "rows", NoColumn),
     TTLDescription("ROWS_WHERE_TTL", "w", NoColumn),
     TTLDescription("GROUP_BY_TTL", "g", NoColumn),
     TTLDescription("COLUMNS_TTL", "a_ttl", "a"),
     TTLDescription("MOVES_TTL", "m", NoColumn),
     TTLDescription("RECOMPRESSION_TTL", "r", NoColumn)}

\* A mutant of KeyOf: a column TTL is keyed by its result column as well.
KeyOf_result_column(description) ==
    description.result_column

\* The key the constructor gives the algorithm of a description.
KeyOf(description) ==
    IF description.field = "COLUMNS_TTL" THEN description.name ELSE description.result_column

\* The entry of the TTL infos the constructor names for a description.
RuleOf(description) == TTLRule(description.field, KeyOf(description))

\* The rules a metadata snapshot may configure.
AllRules ==
    {TTLRule("TABLE_TTL", "rows"), TTLRule("ROWS_WHERE_TTL", "w"), TTLRule("GROUP_BY_TTL", "g"),
     TTLRule("COLUMNS_TTL", "a"), TTLRule("MOVES_TTL", "m"), TTLRule("RECOMPRESSION_TTL", "r")}

\* The rule whose timestamps the expressions of a description compute.
ExpressionOf(description) ==
    TTLRule(description.field,
            IF description.field = "COLUMNS_TTL" THEN description.name ELSE description.result_column)

\* A rule of an earlier snapshot that no current snapshot holds.
DroppedRule == TTLRule("MOVES_TTL", "gone")

\* The timestamps a TTL expression yields for a row; NoMatch for a row the rule
\* does not apply to.
Timestamps == {2, 4}
NoMatch == 0

\* The bounds an earlier calculation recorded.
OldTTLInfo == [min |-> 1, max |-> 3]

\* old_ttl_infos.table_ttl, old_ttl_infos.moves_ttl[key], ...: operator[] on a
\* map yields an empty info for a key that is not recorded.
InfoOf(infos, rule) ==
    IF rule.field = "TABLE_TTL" THEN infos.table_ttl
    ELSE IF rule.key \in DOMAIN infos.maps[rule.field] THEN infos.maps[rule.field][rule.key]
    ELSE EmptyTTLInfo

SetInfo(infos, rule, info) ==
    IF rule.field = "TABLE_TTL" THEN [infos EXCEPT !.table_ttl = info]
    ELSE [infos EXCEPT !.maps[rule.field] = Put(@, rule.key, info)]

\* TTLInfo::update.
TTLInfo_update(info, time) ==
    [min |-> IF time # NoMatch /\ (info.min = 0 \/ time < info.min) THEN time ELSE info.min,
     max |-> IF time > info.max THEN time ELSE info.max]

\* TTLUpdateInfoAlgorithm: the running bounds of one rule, seeded from the
\* bounds recorded before unless force requests a clean recomputation.
TTLUpdateInfoAlgorithm(description, field, key, old_ttl_info, force_) ==
    [description |-> description, field |-> field, key |-> key,
     new_ttl_info |-> IF force_ THEN EmptyTTLInfo ELSE old_ttl_info]

\* TTLUpdateInfoAlgorithm::execute: updates the bounds with the timestamp of
\* every row of the block; a block is a sequence of rows, a row gives each
\* rule its timestamp.
RECURSIVE TTLUpdateInfoAlgorithm_execute(_, _)
TTLUpdateInfoAlgorithm_execute(algorithm, block) ==
    IF block = <<>> THEN algorithm
    ELSE TTLUpdateInfoAlgorithm_execute(
            [algorithm EXCEPT !.new_ttl_info =
                TTLInfo_update(@, Head(block)[ExpressionOf(algorithm.description)])],
            Tail(block))

\* TTLUpdateInfoAlgorithm::finalize: stores the bounds under the rule's key.
TTLUpdateInfoAlgorithm_finalize(algorithm, infos) ==
    SetInfo(infos, TTLRule(algorithm.field, algorithm.key), algorithm.new_ttl_info)

\* The order in which the constructor creates the algorithms.
FieldOrder ==
    <<"TABLE_TTL", "ROWS_WHERE_TTL", "GROUP_BY_TTL", "COLUMNS_TTL", "MOVES_TTL", "RECOMPRESSION_TTL">>

RECURSIVE RulesInOrder(_, _)
RulesInOrder(rules, fields) ==
    IF fields = <<>> THEN <<>>
    ELSE SetToSeq({r \in rules : r.field = Head(fields)}) \o RulesInOrder(rules, Tail(fields))

\* A mutant of the constructor: every algorithm is seeded with the bounds of the rows TTL.
TTLCalcTransform_seeds_table_ttl(old_ttl_infos, snapshot, force_) ==
    LET order == RulesInOrder(snapshot, FieldOrder)
    IN  [i \in 1..Len(order) |->
            TTLUpdateInfoAlgorithm(order[i], order[i].field, KeyOf(order[i]),
                                   old_ttl_infos.table_ttl, force_)]

\* TTLCalcTransform::TTLCalcTransform: one TTLUpdateInfoAlgorithm per rule of the
\* metadata snapshot, each given the info the part recorded for that rule.
TTLCalcTransform(old_ttl_infos, snapshot, force_) ==
    LET order == RulesInOrder(snapshot, FieldOrder)
    IN  [i \in 1..Len(order) |->
            TTLUpdateInfoAlgorithm(order[i], order[i].field, KeyOf(order[i]),
                                   InfoOf(old_ttl_infos, RuleOf(order[i])), force_)]

\* The TTL infos a part may carry before the transform is constructed: at most
\* MaxOldEntries rules have recorded bounds.
RECURSIVE Recorded(_)
Recorded(rules) ==
    IF rules = {} THEN EmptyTTLInfos
    ELSE LET r == CHOOSE x \in rules : TRUE IN SetInfo(Recorded(rules \ {r}), r, OldTTLInfo)

OldTTLInfos ==
    {Recorded(rs) : rs \in {x \in SUBSET (AllRules \cup {DroppedRule}) : Cardinality(x) <= MaxOldEntries}}

Snapshots == {x \in SUBSET AllDescriptions : Cardinality(x) <= MaxRules}

\* No part is being written while the transform runs.
NoStream ==
    /\ pc = "none"
    /\ new_part = [rows_count |-> 0]
    /\ default_codec = FALSE
    /\ reset_columns = FALSE
    /\ rows_count = 0
    /\ new_serialization_infos = 0
    /\ writer = [state |-> "none"]
    /\ disk = EmptyMap
    /\ written_files = <<>>
    /\ files_to_remove_after_finish = {}
    /\ sync = FALSE
    /\ handle = "absent"
    /\ impl = FALSE
    /\ log = <<>>
    /\ checksums_txt = EmptyMap
    /\ count_txt = <<>>
    /\ hist = [writes |-> 0]

NoneSeen == [r \in AllRules |-> {}]

\* The transform after construction, for any part, snapshot and force flag.
InitTTL ==
    /\ NoStream
    /\ NoGranularity
    /\ NoFinalizers
    /\ ttl_pc = "accumulating"
    /\ ttl_infos \in OldTTLInfos
    /\ force \in BOOLEAN
    /\ \E snapshot \in Snapshots :
          /\ algorithms = TTLCalcTransform(ttl_infos, snapshot, force)
          /\ ttl_hist = [old |-> ttl_infos, snapshot |-> snapshot,
                         rules |-> {ExpressionOf(d) : d \in snapshot}, seen |-> NoneSeen]

\* The rows of a chunk: each gives every rule of the snapshot a timestamp or NoMatch.
RowsFor(rules) ==
    {[r \in AllRules |-> IF r \in rules THEN row[r] ELSE NoMatch] :
        row \in [rules -> Timestamps \cup {NoMatch}]}
\* The numbers of rows of the chunks the transform is given.
ChunkRows == {0, 1}
Blocks(rules) == UNION {[1..n -> RowsFor(rules)] : n \in ChunkRows}

Seen(seen, block) ==
    [r \in AllRules |-> seen[r] \cup ({block[i][r] : i \in DOMAIN block} \ {NoMatch})]

RECURSIVE FinalizeAll(_, _)
FinalizeAll(algs, infos) ==
    IF algs = <<>> THEN infos
    ELSE FinalizeAll(Tail(algs), TTLUpdateInfoAlgorithm_finalize(Head(algs), infos))

\* A mutant of consume: the bounds are stored into the part after every chunk.
TTLCalcTransform_consume_stores ==
    /\ ttl_pc = "accumulating"
    /\ \E block \in Blocks(ttl_hist.rules) :
          /\ algorithms' = [i \in DOMAIN algorithms |->
                                TTLUpdateInfoAlgorithm_execute(algorithms[i], block)]
          /\ ttl_hist' = [ttl_hist EXCEPT !.seen = Seen(@, block)]
    /\ ttl_infos' = FinalizeAll(algorithms', ttl_infos)
    /\ UNCHANGED <<ttl_pc, force>>
    /\ UNCHANGED <<stream_vars, granularity_vars, finalizer_vars>>

\* TTLCalcTransform::consume: every algorithm executes on the block of the chunk.
TTLCalcTransform_consume ==
    /\ ttl_pc = "accumulating"
    /\ \E block \in Blocks(ttl_hist.rules) :
          /\ algorithms' = [i \in DOMAIN algorithms |->
                                TTLUpdateInfoAlgorithm_execute(algorithms[i], block)]
          /\ ttl_hist' = [ttl_hist EXCEPT !.seen = Seen(@, block)]
    /\ UNCHANGED <<ttl_pc, ttl_infos, force>>
    /\ UNCHANGED <<stream_vars, granularity_vars, finalizer_vars>>

\* TTLCalcTransform::generate: every algorithm executes on an empty block.
TTLCalcTransform_generate ==
    /\ ttl_pc = "accumulating"
    /\ algorithms' = [i \in DOMAIN algorithms |->
                          TTLUpdateInfoAlgorithm_execute(algorithms[i], <<>>)]
    /\ UNCHANGED <<ttl_pc, ttl_infos, force, ttl_hist>>
    /\ UNCHANGED <<stream_vars, granularity_vars, finalizer_vars>>

\* A mutant of finalize: the infos of the part are not reset before the
\* algorithms store their bounds.
TTLCalcTransform_finalize_merges ==
    ttl_infos' = FinalizeAll(algorithms, ttl_infos)

\* TTLCalcTransform::finalize.
TTLCalcTransform_finalize ==
    ttl_infos' = FinalizeAll(algorithms, EmptyTTLInfos)

\* TTLCalcTransform::prepare: finalizes when IAccumulatingTransform::prepare
\* reports that the transform has finished.
TTLCalcTransform_prepare ==
    /\ ttl_pc = "accumulating"
    /\ \E status \in {"NeedData", "PortFull", "Ready", "Finished"} :
          IF status = "Finished"
          THEN TTLCalcTransform_finalize /\ ttl_pc' = "finished"
          ELSE UNCHANGED <<ttl_infos, ttl_pc>>
    /\ UNCHANGED <<algorithms, force, ttl_hist>>
    /\ UNCHANGED <<stream_vars, granularity_vars, finalizer_vars>>

NextTTL ==
    \/ TTLCalcTransform_consume
    \/ TTLCalcTransform_generate
    \/ TTLCalcTransform_prepare

SpecTTL == InitTTL /\ [][NextTTL]_vars

----------------------------------------------------------------------------
\* The index granularity of the part: finalizePartAsync takes it from the column
\* writer and, when the setting allows, replaces it by what optimize() returns.

\* The rows a granule of the writer may hold; the final mark holds none.
GranuleRows == {0, 1, 2}

\* getMarkRows for every mark: the sequence of per-granule row counts a
\* granularity stands for.
Expand(g) ==
    IF g.kind = "constant"
    THEN [i \in 1..g.num_marks_without_final |->
            IF i < g.num_marks_without_final THEN g.constant_granularity
            ELSE g.last_mark_granularity]
         \o (IF g.has_final_mark THEN <<0>> ELSE <<>>)
    ELSE g.marks_rows

\* MergeTreeIndexGranularity::optimize applied to marks kept one by one: a
\* constant representation when every granule but the last (and the final mark)
\* has the same number of rows and the last has no more.
OptimizeAdaptive(marks) ==
    LET has_final_mark == Len(marks) > 1 /\ marks[Len(marks)] = 0
        marks_count == IF has_final_mark THEN Len(marks) - 1 ELSE Len(marks)
    IN  IF marks = <<>> THEN NullGranularity
        ELSE IF \E i \in 1..(marks_count - 1) : marks[i] # marks[1] THEN NullGranularity
        ELSE IF marks[marks_count] > marks[1] THEN NullGranularity
        ELSE Constant(marks[1], marks[marks_count], marks_count, has_final_mark)

\* MergeTreeIndexGranularity::optimize: nothing new for a granularity that is
\* constant already.
optimize(g) == IF g.kind = "adaptive" THEN OptimizeAdaptive(g.marks_rows) ELSE NullGranularity

\* A mutant of OptimizedIndexGranularity: the result of optimize() is stored unchecked.
OptimizedIndexGranularity_unchecked(g, compression) ==
    IF compression THEN optimize(g) ELSE g

\* The granularity finalizePartAsync leaves in the part: that of the writer, or
\* what optimize() returns for it when compression is enabled and optimize()
\* returns something.
OptimizedIndexGranularity(g, compression) ==
    IF compression /\ optimize(g) # NullGranularity THEN optimize(g) ELSE g

\* The column writer adds a granule.
writer_addMark ==
    /\ index_granularity = NoMarks
    /\ Len(writer_index_granularity) < MaxMarks
    /\ \E rows \in GranuleRows : writer_index_granularity' = Append(writer_index_granularity, rows)
    /\ UNCHANGED <<index_granularity, enable_index_granularity_compression, optimized_again>>
    /\ UNCHANGED <<stream_vars, transform_vars, finalizer_vars>>

\* finalizePartAsync, as far as the index granularity goes.
finalizePartAsync_index_granularity ==
    /\ index_granularity = NoMarks
    /\ index_granularity' = OptimizedIndexGranularity(Adaptive(writer_index_granularity),
                                                      enable_index_granularity_compression)
    /\ UNCHANGED <<writer_index_granularity, enable_index_granularity_compression, optimized_again>>
    /\ UNCHANGED <<stream_vars, transform_vars, finalizer_vars>>

\* The pass is applied to the granularity of the part once more.
optimize_again ==
    /\ index_granularity # NoMarks
    /\ ~optimized_again
    /\ index_granularity' = OptimizedIndexGranularity(index_granularity, TRUE)
    /\ optimized_again' = TRUE
    /\ UNCHANGED <<writer_index_granularity, enable_index_granularity_compression>>
    /\ UNCHANGED <<stream_vars, transform_vars, finalizer_vars>>

InitGranularity ==
    /\ NoStream
    /\ NoTransform
    /\ NoFinalizers
    /\ writer_index_granularity = <<>>
    /\ index_granularity = NoMarks
    /\ enable_index_granularity_compression \in BOOLEAN
    /\ optimized_again = FALSE

NextGranularity ==
    \/ writer_addMark
    \/ finalizePartAsync_index_granularity
    \/ optimize_again

SpecGranularity == InitGranularity /\ [][NextGranularity]_vars

----------------------------------------------------------------------------
\* Finalizer objects: the handles finalizePartAsync returned, moved, finished,
\* cancelled and destroyed by their holders.

NoImpl == 0
Impls == 1..MaxFinalizers
\* The handles finalizePartAsync returned and one more object, to be move-constructed.
Finalizers == 1..(MaxFinalizers + 1)

Unborn == [state |-> "unborn", impl |-> NoImpl]
Alive(i) == [state |-> "alive", impl |-> i]
Dead == [state |-> "dead", impl |-> NoImpl]

\* ~Impl, implicit: the members are destroyed, neither finish nor cancel runs.
Impl_destructor(all, i) ==
    IF i = NoImpl THEN all ELSE [all EXCEPT ![i].destroyed = TRUE]

\* Impl::finish and Impl::cancel on the Impl a local unique_ptr took over, which
\* destroys it at the end of the scope.
Impl_finish(all, i) ==
    IF i = NoImpl THEN all ELSE Impl_destructor([all EXCEPT ![i].finish = @ + 1], i)

Impl_cancel(all, i) ==
    IF i = NoImpl THEN all ELSE Impl_destructor([all EXCEPT ![i].cancel = @ + 1], i)

\* Every handle finalizePartAsync returned holds the Impl created for it.
InitFinalizers ==
    /\ NoStream
    /\ NoTransform
    /\ NoGranularity
    /\ finalizers = [h \in Finalizers |-> IF h \in Impls THEN Alive(h) ELSE Unborn]
    /\ impls = [i \in Impls |-> [finish |-> 0, cancel |-> 0, destroyed |-> FALSE]]

\* Finalizer(Finalizer &&) = default: the new object takes the pointer of the source.
Finalizer_move_constructor ==
    /\ \E dst \in Finalizers, src \in Finalizers :
          /\ finalizers[dst].state = "unborn"
          /\ finalizers[src].state = "alive"
          /\ finalizers' = [finalizers EXCEPT ![dst] = Alive(finalizers[src].impl),
                                              ![src] = Alive(NoImpl)]
    /\ UNCHANGED impls
    /\ UNCHANGED <<stream_vars, transform_vars, granularity_vars>>

\* operator=(Finalizer &&) = default: unique_ptr's move assignment resets the
\* target to the pointer of the source, which deletes the Impl the target held.
Finalizer_move_assignment ==
    /\ \E dst \in Finalizers, src \in Finalizers :
          /\ dst # src
          /\ finalizers[dst].state = "alive"
          /\ finalizers[src].state = "alive"
          /\ finalizers' = [finalizers EXCEPT ![dst] = Alive(finalizers[src].impl),
                                              ![src] = Alive(NoImpl)]
          /\ impls' = Impl_destructor(impls, finalizers[dst].impl)
    /\ UNCHANGED <<stream_vars, transform_vars, granularity_vars>>

\* Finalizer::finish.
Finalizer_finish ==
    /\ \E h \in Finalizers :
          /\ finalizers[h].state = "alive"
          /\ finalizers' = [finalizers EXCEPT ![h] = Alive(NoImpl)]
          /\ impls' = Impl_finish(impls, finalizers[h].impl)
    /\ UNCHANGED <<stream_vars, transform_vars, granularity_vars>>

\* Finalizer::cancel.
Finalizer_cancel ==
    /\ \E h \in Finalizers :
          /\ finalizers[h].state = "alive"
          /\ finalizers' = [finalizers EXCEPT ![h] = Alive(NoImpl)]
          /\ impls' = Impl_cancel(impls, finalizers[h].impl)
    /\ UNCHANGED <<stream_vars, transform_vars, granularity_vars>>

\* Finalizer::~Finalizer: cancels if the pointer is not null.
Finalizer_destructor ==
    /\ \E h \in Finalizers :
          /\ finalizers[h].state = "alive"
          /\ finalizers' = [finalizers EXCEPT ![h] = Dead]
          /\ impls' = Impl_cancel(impls, finalizers[h].impl)
    /\ UNCHANGED <<stream_vars, transform_vars, granularity_vars>>

NextFinalizers ==
    \/ Finalizer_move_constructor
    \/ Finalizer_move_assignment
    \/ Finalizer_finish
    \/ Finalizer_cancel
    \/ Finalizer_destructor

SpecFinalizers == InitFinalizers /\ [][NextFinalizers]_vars

----------------------------------------------------------------------------
\* Properties of the commit handle and of the files a prepare stages.

StagedByPrepare == Range(written_files)
FinalizedFiles == {f \in StagedByPrepare : disk[f].st = "finalized"}
ImplRuns == hist.impl_finish + hist.impl_cancel
Committed == hist.impl_finish = 1 /\ ~hist.finish_error
Positions(op) == {i \in DOMAIN log : log[i].op = op}
PositionsOf(op, file) == {i \in DOMAIN log : log[i] = Op(op, file)}

\* The files that are no key of the checksums map although prepare writes them.
PlainFiles ==
    {COLUMNS_FILE_NAME, COLUMNS_SUBSTREAMS_FILE_NAME, METADATA_VERSION_FILE_NAME,
     DEFAULT_COMPRESSION_CODEC_FILE_NAME, CHECKSUMS_FILE_NAME}

\* readIntText: the number a decimal text denotes.
RECURSIVE readIntText(_)
readIntText(digits) ==
    IF digits = <<>> THEN 0
    ELSE 10 * readIntText(SubSeq(digits, 1, Len(digits) - 1)) + digits[Len(digits)]

\* C1: for the handle finalizePartAsync returns, under any sequence of finish(),
\* cancel() and destruction, Impl::finish and Impl::cancel together run at most
\* once; the handle holds its Impl exactly as long as neither has run, so a
\* second finish or cancel does nothing; a destroyed handle has had exactly one
\* of them run, and it is cancel when neither finish() nor cancel() was called.
C1_ExactlyOneOfFinishCancel ==
    /\ ImplRuns <= 1
    /\ handle = "absent" => ImplRuns = 0 /\ ~impl
    /\ handle = "alive" => (impl <=> ImplRuns = 0)
    /\ handle = "destroyed" => ImplRuns = 1 /\ ~impl
    /\ handle = "destroyed" /\ hist.calls = 0 => hist.impl_cancel = 1
    /\ hist.impl_finish = 0 => Positions("finalize") = {} /\ Positions("writer.finish") = {}
    /\ hist.impl_cancel = 0 => Positions("cancel") = {}
    /\ Cardinality(Positions("writer.finish")) <= 1
    /\ \A f \in StagedByPrepare : Cardinality(PositionsOf("cancel", f)) <= 1

\* A handle on which finish() ran, then a second call was made, and which was then destroyed.
C1_Witness ==
    handle = "destroyed" /\ hist.calls = MaxCalls /\ hist.impl_finish = 1

\* C2: no partial commit is observable: once the handle is torn down either
\* every staged file is finalized or none is, and never are some staged files
\* finalized while others are neither finalized nor cancelled.
C2_NoPartialCommit ==
    /\ handle = "destroyed" => FinalizedFiles = {} \/ FinalizedFiles = StagedByPrepare
    /\ ~(FinalizedFiles # {} /\ \E f \in StagedByPrepare : disk[f].st \in {"pending", "abandoned"})

\* C3: after cancel on the handle (explicit or through the destructor), following
\* one or more writes and a prepare and no finish, none of the files staged since
\* the writer was constructed (the column files and the auxiliary files of the
\* prepare) is in the part directory: each of them was cancelled.
C3_CancelLeavesNoStagedFile ==
    hist.impl_cancel = 1 =>
        \A f \in ColumnFiles \cup StagedByPrepare : disk[f].st = "cancelled"

\* Rows were written, the part was prepared, and the destructor cancelled the handle.
C3_Witness ==
    /\ hist.impl_cancel = 1 /\ hist.calls = 0 /\ handle = "destroyed"
    /\ hist.sum > 0 /\ Len(written_files) > 1

\* C4: after a successful finalize (and finish), the value written to count.txt
\* and new_part.rows_count both equal the sum of the row counts of the blocks
\* passed to write / writeWithPermutation.
C4_CountIsSumOfBatches ==
    pc = "prepared" =>
        /\ readIntText(count_txt) = hist.sum
        /\ new_part.rows_count = hist.sum
        /\ COUNT_FILE_NAME \in StagedByPrepare

\* Two non-empty blocks were written and the part was committed.
C4_Witness ==
    Committed /\ hist.writes = MaxWrites /\ hist.sum = 100 /\ count_txt = <<1, 0, 0>>

\* C5: in every successful prepare checksums.txt is the last file staged and is
\* staged once, it holds the checksums map the part ends up with (no entry is
\* added after it is written), and finish finalizes it after every other
\* pending auxiliary file.
C5_ChecksumsFileLast ==
    pc = "prepared" =>
        /\ written_files # <<>>
        /\ \A i \in DOMAIN written_files :
              written_files[i] = CHECKSUMS_FILE_NAME <=> i = Len(written_files)
        /\ checksums_txt = new_part.checksums
        /\ \A i \in PositionsOf("finalize", CHECKSUMS_FILE_NAME) :
              /\ \A f \in StagedByPrepare \ {CHECKSUMS_FILE_NAME} :
                    \E j \in PositionsOf("finalize", f) : j < i
              /\ \A j \in Positions("finalize") : j <= i

\* finish finalized checksums.txt of a part with several auxiliary files.
C5_Witness ==
    /\ PositionsOf("finalize", CHECKSUMS_FILE_NAME) # {}
    /\ Len(written_files) > 6

\* C6 as stated: after a successful finalize every file written during prepare
\* is a key of the part's checksums map, and every key is a file that was written.
C6_EveryWrittenFileIsKey ==
    pc = "prepared" =>
        /\ StagedByPrepare \subseteq DOMAIN new_part.checksums
        /\ DOMAIN new_part.checksums \subseteq DOMAIN disk

\* C6 amended: after a successful finalize the files staged by prepare that are
\* keys of the part's checksums map are exactly those written with a hash
\* (uuid.txt, the partition and min-max files, source_parts_set, count.txt,
\* ttl.txt, serialization.json); columns.txt, columns_substreams.txt,
\* metadata_version.txt, default_compression_codec.txt and checksums.txt are
\* written without an entry; and every key is a file that was written.
C6_HashedFilesAreKeys ==
    pc = "prepared" =>
        /\ StagedByPrepare \cap DOMAIN new_part.checksums = StagedByPrepare \ PlainFiles
        /\ PlainFiles \cap DOMAIN new_part.checksums = {}
        /\ DOMAIN new_part.checksums \subseteq DOMAIN disk
        /\ {COLUMNS_FILE_NAME, METADATA_VERSION_FILE_NAME, DEFAULT_COMPRESSION_CODEC_FILE_NAME,
            CHECKSUMS_FILE_NAME, COUNT_FILE_NAME} \subseteq StagedByPrepare

\* A prepared part with hashed files and with columns_substreams.txt.
C6_Witness ==
    /\ pc = "prepared"
    /\ COLUMNS_SUBSTREAMS_FILE_NAME \in StagedByPrepare
    /\ UUID_FILE_NAME \in DOMAIN new_part.checksums

C8_RemoveAfterFinalize ==
    /\ \A i \in Positions("removeFile") :
          /\ \A f \in StagedByPrepare : \E j \in PositionsOf("finalize", f) : j < i
          /\ \A j \in Positions("finalize") \cup Positions("sync") : j < i
          /\ \E c \in Positions("commitTransaction") : c + 1 < i
    /\ \A c \in Positions("commitTransaction") :
          /\ files_to_remove_after_finish # {}
          /\ \A j \in Positions("finalize") \cup Positions("sync") : j < c
          /\ \A f \in StagedByPrepare : PositionsOf("finalize", f) # {}
          /\ c + 1 \in DOMAIN log => log[c + 1].op = "beginTransaction"
    /\ \A b \in Positions("beginTransaction") : b > 1 /\ log[b - 1].op = "commitTransaction"
    /\ Cardinality(Positions("commitTransaction")) <= 1
    /\ Committed =>
          /\ (Positions("commitTransaction") # {} <=> files_to_remove_after_finish # {})
          /\ (Positions("beginTransaction") # {} <=> files_to_remove_after_finish # {})
          /\ {log[i].file : i \in Positions("removeFile")} = files_to_remove_after_finish

\* A finish that split the transaction and removed a file.
C8_Witness ==
    Committed /\ Positions("removeFile") # {} /\ sync

\* C9: on the cancel path every pending file is cancelled, none is finalized or
\* synced, and no removeFile, commitTransaction or beginTransaction is issued:
\* no file is deleted, and the files that were there before the prepare stay.
C9_CancelDeletesNothing ==
    hist.impl_cancel = 1 =>
        /\ \A f \in StagedByPrepare : PositionsOf("cancel", f) # {} /\ ~disk[f].synced
        /\ \A i \in DOMAIN log : log[i].op \in {"writer.cancel", "cancel"}
        /\ \A f \in DOMAIN disk : disk[f].st # "removed"
        /\ \A f \in PreExistingFiles \cup {VERSION_FILE_NAME} : disk[f].st = "finalized"

\* An explicit cancel of a handle that had deletions scheduled and sync requested.
C9_Witness ==
    /\ hist.impl_cancel = 1 /\ hist.calls > 0
    /\ files_to_remove_after_finish # {} /\ sync

\* The case of C10: a part with zero rows, no projection, in the format with
\* custom partitioning, whose min-max index was never initialized, was finalized.
C10_Case ==
    /\ pc \in {"prepared", "failed"}
    /\ rows_count = 0
    /\ ~new_part.is_projection /\ new_part.format_custom /\ ~new_part.minmax_initialized

MinMaxFilesOnDisk == {f \in DOMAIN disk : \E c \in {"d"} : f = MinMaxFile(c)}

\* C10 as stated: finalizing such a part is rejected with a fatal logical error
\* and writes no min-max index.
C10_EmptyPartRejected ==
    C10_Case => pc = "failed" /\ hist.prepare_error = MinMaxError /\ MinMaxFilesOnDisk = {}

\* C10 amended: finalizing such a part is not rejected for its min-max index:
\* no min-max error is raised and no min-max index file is written; with a
\* codec and without an I/O error the prepare succeeds and returns a handle.
C10_EmptyPartAccepted ==
    C10_Case =>
        /\ hist.prepare_error # MinMaxError
        /\ MinMaxFilesOnDisk = {}
        /\ (default_codec /\ hist.prepare_error # IOError => pc = "prepared" /\ handle # "absent")
        /\ (pc = "failed" => hist.prepare_error \in {CodecError, IOError})

\* Such a part was prepared, with its partition file, and committed.
C10_Witness ==
    C10_Case /\ Committed /\ PARTITION_FILE_NAME \in StagedByPrepare

----------------------------------------------------------------------------
\* Properties of a prepare that fails.

\* The files the failed or successful prepare put into the part directory.
AuxiliaryFilesOnDisk == DOMAIN disk \ (ColumnFiles \cup PreExistingFiles \cup {VERSION_FILE_NAME})

\* The case of C11: a part with rows, no projection, in the format with custom
\* partitioning, whose min-max index was never initialized, was finalized.
C11_Case ==
    /\ pc \in {"prepared", "failed"}
    /\ rows_count > 0
    /\ ~new_part.is_projection /\ new_part.format_custom /\ ~new_part.minmax_initialized

\* C11: finalizing such a part fails: no handle is returned, the error is the
\* logical error of the min-max index unless an I/O error struck one of the files
\* staged before it (uuid.txt, partition.dat), and neither count.txt nor
\* checksums.txt nor any later file is written.
C11_NonEmptyPartRejected ==
    C11_Case =>
        /\ pc = "failed" /\ handle = "absent" /\ ~impl /\ written_files = <<>>
        /\ hist.prepare_error \in {MinMaxError, IOError}
        /\ AuxiliaryFilesOnDisk \subseteq {UUID_FILE_NAME, PARTITION_FILE_NAME}
        /\ COUNT_FILE_NAME \notin DOMAIN disk /\ CHECKSUMS_FILE_NAME \notin DOMAIN disk
        /\ count_txt = <<>> /\ checksums_txt = EmptyMap

\* Such a part was rejected for its min-max index after partition.dat was staged.
C11_Witness ==
    C11_Case /\ hist.prepare_error = MinMaxError /\ PARTITION_FILE_NAME \in DOMAIN disk

\* C12: a prepare of a writer constructed without a codec fails, with the
\* logical error of the codec unless an earlier step already failed; no handle
\* is returned and neither default_compression_codec.txt nor checksums.txt is
\* written. With a codec, every successful prepare stages
\* default_compression_codec.txt, once, and sets the codec of the part.
C12_CodecIsMandatory ==
    /\ pc \in {"prepared", "failed"} /\ ~default_codec =>
          /\ pc = "failed" /\ handle = "absent" /\ ~impl /\ written_files = <<>>
          /\ hist.prepare_error \in {CodecError, MinMaxError, IOError}
          /\ DEFAULT_COMPRESSION_CODEC_FILE_NAME \notin DOMAIN disk
          /\ CHECKSUMS_FILE_NAME \notin DOMAIN disk
          /\ checksums_txt = EmptyMap
    /\ hist.prepare_error = CodecError => ~default_codec
    /\ pc = "prepared" =>
          /\ default_codec /\ new_part.default_codec
          /\ Cardinality({i \in DOMAIN written_files :
                            written_files[i] = DEFAULT_COMPRESSION_CODEC_FILE_NAME}) = 1

\* A prepare failed for the missing codec after it staged count.txt, columns.txt
\* and metadata_version.txt.
C12_Witness ==
    /\ pc = "failed" /\ hist.prepare_error = CodecError
    /\ {COUNT_FILE_NAME, COLUMNS_FILE_NAME, METADATA_VERSION_FILE_NAME} \subseteq DOMAIN disk

\* C13: when a prepare fails after it staged some files, every file it staged is
\* cancelled: none is left pending, abandoned or visible.
C13_FailedPrepareCancelsStaged ==
    pc = "failed" => \A f \in AuxiliaryFilesOnDisk : disk[f].st = "cancelled"

----------------------------------------------------------------------------
\* Properties of write and writeWithPermutation.

\* The blocks that reached the column writer: all but the empty and the rejected.
BlocksWritten == hist.writes - hist.empty - (IF hist.rejected THEN 1 ELSE 0)

\* C14: a block whose columns have inconsistent numbers of rows is rejected
\* before any effect: after it the column writer has been called only for the
\* blocks before it, the column files hold only their rows, the serialization
\* statistics count only them and the row counter is their sum.
C14_InconsistentBlockHasNoEffect ==
    hist.rejected =>
        /\ writer.writes = BlocksWritten
        /\ \A f \in ColumnFiles : disk[f].size = hist.sum
        /\ new_serialization_infos = (IF reset_columns THEN BlocksWritten ELSE 0)
        /\ rows_count = hist.sum
        /\ pc = "writing" /\ handle = "absent"

\* A block was rejected after a block with rows was written, with column pruning enabled.
C14_Witness ==
    hist.rejected /\ hist.sum > 0 /\ reset_columns /\ writer.writes = 1

\* C15: an empty block is a no-op wherever it occurs among the writes: the
\* column writer is called once per non-empty block and never for an empty
\* one, the column files hold the rows of the non-empty blocks, the
\* serialization statistics count the non-empty blocks only, and the row
\* counter is their sum.
C15_EmptyBlockIsNoOp ==
    ~hist.rejected =>
        /\ writer.writes = hist.writes - hist.empty
        /\ \A f \in ColumnFiles : disk[f].size = hist.sum
        /\ new_serialization_infos = (IF reset_columns THEN hist.writes - hist.empty ELSE 0)
        /\ rows_count = hist.sum

\* An empty block and a block with rows were written, with column pruning
\* enabled, and the part was committed.
C15_Witness ==
    /\ hist.empty = 1 /\ hist.sum > 0 /\ reset_columns /\ writer.writes = 1
    /\ Committed /\ count_txt = <<5, 0>>

----------------------------------------------------------------------------
\* Properties of column pruning.

RemovedFiles == {f \in DOMAIN disk : disk[f].st = "removed"}

\* C16: the files of pruned columns that prepare schedules for deletion are
\* removed only inside finish: as long as Impl::finish has not run no
\* removeFile was issued and no file is gone, whether the handle is still held,
\* was cancelled or was destroyed; a file that is gone was scheduled by the
\* prepare and removed by a removeFile of finish.
C16_PrunedFilesRemovedOnlyInFinish ==
    /\ hist.impl_finish = 0 => RemovedFiles = {} /\ Positions("removeFile") = {}
    /\ pc = "prepared" /\ hist.impl_finish = 0 =>
          \A f \in files_to_remove_after_finish : f \in DOMAIN disk /\ disk[f].st # "removed"
    /\ \A f \in RemovedFiles :
          /\ hist.impl_finish = 1
          /\ f \in files_to_remove_after_finish
          /\ PositionsOf("removeFile", f) # {}
    /\ files_to_remove_after_finish # {} => reset_columns

\* A handle with a deletion scheduled was destroyed with neither finish nor cancel called.
C16_Witness ==
    /\ files_to_remove_after_finish # {}
    /\ handle = "destroyed" /\ hist.calls = 0 /\ hist.impl_cancel = 1
    /\ \A f \in files_to_remove_after_finish : disk[f].st = "cancelled"

----------------------------------------------------------------------------
\* Properties of cancelling the column writer.

\* C20: over any sequence of MergedBlockOutputStream::cancel(), prepare, cancel()
\* on the handle and destruction of the handle, cancel of the per-column writer
\* is invoked at most once.
C20_WriterCancelledAtMostOnce ==
    writer.cancels <= 1

----------------------------------------------------------------------------
\* Properties of the TTL bookkeeping.

ConfiguredKeys(field) == {r.key : r \in {x \in ttl_hist.rules : x.field = field}}

AlgorithmOf(rule) ==
    algorithms[CHOOSE i \in DOMAIN algorithms :
                  algorithms[i].field = rule.field /\ algorithms[i].key = rule.key]

\* C17: finalize replaces the TTL infos of the part wholesale: afterwards every
\* map holds exactly the keys of the configured rules of its kind, each with
\* the bounds its algorithm persisted, the rows TTL has bounds only if a rows
\* TTL is configured, and an entry recorded for a rule that is not in the
\* snapshot is gone.
C17_FinalizeReplacesWholesale ==
    ttl_pc = "finished" =>
        /\ \A f \in KeyedFields : DOMAIN ttl_infos.maps[f] = ConfiguredKeys(f)
        /\ \A r \in ttl_hist.rules : InfoOf(ttl_infos, r) = AlgorithmOf(r).new_ttl_info
        /\ TTLRule("TABLE_TTL", "rows") \notin ttl_hist.rules => ttl_infos.table_ttl = EmptyTTLInfo
        /\ \A r \in (AllRules \cup {DroppedRule}) \ ttl_hist.rules : InfoOf(ttl_infos, r) = EmptyTTLInfo

\* A part that had bounds recorded for a dropped rule was finalized under a
\* snapshot that holds another rule of the same kind, for which rows matched.
C17_Witness ==
    /\ ttl_pc = "finished"
    /\ InfoOf(ttl_hist.old, DroppedRule) = OldTTLInfo
    /\ ttl_hist.rules = {TTLRule("MOVES_TTL", "m")}
    /\ ttl_hist.seen[TTLRule("MOVES_TTL", "m")] # {}

Min(S) == CHOOSE x \in S : \A y \in S : x <= y
Max(S) == CHOOSE x \in S : \A y \in S : x >= y
BoundsOf(S) == IF S = {} THEN EmptyTTLInfo ELSE [min |-> Min(S), max |-> Max(S)]

\* C18: for every configured rule no consumed row matched: without force the
\* bounds of the rule after finalize are the bounds recorded before; with force
\* the bounds are those of the timestamps of the consumed rows alone (none when
\* no row matched), whatever was recorded before.
C18_ForceRecomputes ==
    ttl_pc = "finished" =>
        \A r \in ttl_hist.rules :
            /\ ~force /\ ttl_hist.seen[r] = {} => InfoOf(ttl_infos, r) = InfoOf(ttl_hist.old, r)
            /\ force => InfoOf(ttl_infos, r) = BoundsOf(ttl_hist.seen[r])

\* Two rules, one of them with bounds recorded before, were finalized with
\* force set and no row matching either.
C18_Witness ==
    /\ ttl_pc = "finished"
    /\ ttl_hist.rules = {TTLRule("COLUMNS_TTL", "a"), TTLRule("MOVES_TTL", "m")}
    /\ InfoOf(ttl_hist.old, TTLRule("COLUMNS_TTL", "a")) = OldTTLInfo
    /\ \A r \in ttl_hist.rules : ttl_hist.seen[r] = {}
    /\ force

\* What C23 says of an algorithm whose rule is to be keyed by `key`: the
\* algorithm carries the key, was seeded with the bounds the part recorded
\* under it (seen as long as no row matched and force is off), and finalize
\* registered its bounds under it.
C23_KeyedBy(algorithm, key) ==
    /\ algorithm.key = key
    /\ ~force /\ ttl_hist.seen[ExpressionOf(algorithm.description)] = {} =>
            algorithm.new_ttl_info = InfoOf(ttl_hist.old, TTLRule(algorithm.field, key))
    /\ ttl_pc = "finished" =>
            /\ key \in DOMAIN ttl_infos.maps[algorithm.field]
            /\ ttl_infos.maps[algorithm.field][key] = algorithm.new_ttl_info

\* C23 as stated: every rule of a kind that may have several instances
\* (rows-where, group-by, column, move, recompression) reads its previous
\* bounds from, and is registered under, the name of its result column.
C23_KeyedByResultColumn ==
    \A i \in DOMAIN algorithms :
        algorithms[i].field \in KeyedFields =>
            C23_KeyedBy(algorithms[i], algorithms[i].description.result_column)

\* C23 amended: a rows-where, group-by, move or recompression rule reads its
\* previous bounds from, and is registered under, the name of its result
\* column, and a column rule the name of the column it belongs to.
C23_KeyedByResultColumnOrColumn ==
    \A i \in DOMAIN algorithms :
        /\ algorithms[i].field \in KeyedFields \ {"COLUMNS_TTL"} =>
              C23_KeyedBy(algorithms[i], algorithms[i].description.result_column)
        /\ algorithms[i].field = "COLUMNS_TTL" =>
              C23_KeyedBy(algorithms[i], algorithms[i].description.name)

\* A column rule and a move rule were finalized for a part that had bounds
\* recorded under the name of the column; no row matched the column rule.
C23_Witness ==
    /\ ttl_pc = "finished"
    /\ ~force
    /\ {d.field : d \in ttl_hist.snapshot} = {"COLUMNS_TTL", "MOVES_TTL"}
    /\ InfoOf(ttl_hist.old, TTLRule("COLUMNS_TTL", "a")) = OldTTLInfo
    /\ ttl_hist.seen[TTLRule("COLUMNS_TTL", "a")] = {}
    /\ ttl_hist.seen[TTLRule("MOVES_TTL", "m")] # {}
    /\ "a" \in DOMAIN ttl_infos.maps["COLUMNS_TTL"]
    /\ "a_ttl" \notin DOMAIN ttl_infos.maps["COLUMNS_TTL"]

\* C22: the TTL infos of the part are not modified while batches are consumed:
\* as long as prepare has not reported Finished, whatever consume and generate
\* did, the part holds the infos it had when the transform was constructed;
\* only the finalize of a Finished prepare writes them.
C22_InfosUntouchedUntilFinished ==
    ttl_pc = "accumulating" => ttl_infos = ttl_hist.old

\* A chunk with a matching row was consumed: the bounds of the algorithm moved
\* away from what the part records, and the part still holds the old bounds.
C22_Witness ==
    /\ ttl_pc = "accumulating"
    /\ ttl_infos = ttl_hist.old
    /\ \E r \in ttl_hist.rules :
          /\ ttl_hist.seen[r] # {}
          /\ InfoOf(ttl_infos, r) = OldTTLInfo
          /\ AlgorithmOf(r).new_ttl_info # InfoOf(ttl_infos, r)

----------------------------------------------------------------------------
\* Properties of the index granularity.

\* C19: the granularity the part holds after prepare expands to exactly the
\* per-granule row counts the writer produced, with compression enabled or
\* not; once the optimize pass has been applied, applying it again leaves the
\* granularity of the part as it is; and whenever it is applied the result
\* expands to the same row counts.
C19_OptimizePreservesRows ==
    index_granularity # NoMarks =>
        /\ index_granularity.kind \in {"adaptive", "constant"}
        /\ Expand(index_granularity) = writer_index_granularity
        /\ enable_index_granularity_compression \/ optimized_again =>
              OptimizedIndexGranularity(index_granularity, TRUE) = index_granularity
        /\ Expand(OptimizedIndexGranularity(index_granularity, TRUE)) = writer_index_granularity

\* With compression enabled, a writer's granules of equal size with a smaller
\* last one and a final mark were collapsed, and the pass was applied again.
C19_Witness ==
    /\ enable_index_granularity_compression
    /\ writer_index_granularity = <<2, 1, 0>>
    /\ index_granularity.kind = "constant"
    /\ optimized_again

----------------------------------------------------------------------------
\* Properties of a finish that fails.

\* C25: once finish() has been entered on the handle, the handle is empty
\* whatever the outcome: after an Impl::finish, failed partway or not, no cancel
\* is executed by a later cancel() or by the destructor, neither on the column
\* writer through the Impl nor on a pending file, and no pending file that
\* finish did not reach is cancelled.
C25_FinishEmptiesHandle ==
    hist.impl_finish > 0 =>
        /\ ~impl
        /\ hist.impl_cancel = 0
        /\ \A i \in DOMAIN log : log[i].op \notin {"cancel", "writer.cancel"}
        /\ \A f \in StagedByPrepare : disk[f].st # "cancelled"

\* Impl::finish failed before it reached the last pending file, and cancel()
\* was called on the handle afterwards or the handle was destroyed.
C25_Witness ==
    /\ hist.finish_error
    /\ \E f \in StagedByPrepare : disk[f].st = "abandoned"
    /\ \E f \in StagedByPrepare : disk[f].st = "finalized"
    /\ hist.calls = 2 \/ handle = "destroyed"

----------------------------------------------------------------------------
\* Properties of a prepare that fails.

\* C26: a finalizePartAsync that fails while the auxiliary files are written
\* has modified none of the in-memory attributes of the part: rows_count,
\* checksums, byte sizes, existing_rows_count, default codec, column list,
\* serialization infos and substreams descriptor are as before the call.
C26_FailedPrepareLeavesPartAsBefore ==
    [][pc # "failed" /\ pc' = "failed" => new_part' = new_part]_vars

----------------------------------------------------------------------------
\* Properties of moved handles.

\* C24: every Impl created by finalizePartAsync has had exactly one of finish
\* or cancel executed on it when it is destroyed, under any sequence of
\* move-construction, move-assignment, finish, cancel and destruction of
\* handles.
C24_ImplFinishedOrCancelledOnce ==
    \A i \in DOMAIN impls :
        impls[i].destroyed => impls[i].finish + impls[i].cancel = 1

----------------------------------------------------------------------------
\* Properties of the set of files a prepare writes.

\* The additional checksums of a vertical merge are the only source of an entry
\* for the file of the additional column.
WasVertical == ColumnFile(AdditionalColumn) \in DOMAIN new_part.checksums

\* The substreams descriptor the prepare merged.
MergedSubstreams ==
    ColumnsSubstreams_merge(writer.substreams,
                            IF WasVertical THEN {AdditionalColumn} ELSE {},
                            new_part.columns)

AlwaysWritten ==
    {COUNT_FILE_NAME, COLUMNS_FILE_NAME, METADATA_VERSION_FILE_NAME, CHECKSUMS_FILE_NAME}

\* What C21 says alike as stated and as amended: ttl.txt, serialization.json
\* and columns_substreams.txt are written if and only if the TTL infos, the
\* serialization infos and the merged substreams are non-empty, and count.txt,
\* columns.txt, metadata_version.txt and checksums.txt always.
C21_Common ==
    /\ (TTL_FILE_NAME \in StagedByPrepare <=> new_part.ttl_infos)
    /\ (SERIALIZATION_FILE_NAME \in StagedByPrepare <=> new_part.serialization_infos # {})
    /\ (COLUMNS_SUBSTREAMS_FILE_NAME \in StagedByPrepare <=> MergedSubstreams # {})
    /\ AlwaysWritten \subseteq StagedByPrepare

----------------------------------------------------------------------------
\* Properties of a stream that does not reset the columns.

DeletionOps == {"commitTransaction", "beginTransaction", "removeFile"}

\* C27: when reset_columns is disabled, a prepare leaves the column list and
\* the serialization infos of the part as they were, whatever total column
\* list it was given, and schedules no deletion; and no finish ever issues
\* commitTransaction, beginTransaction or removeFile.
C27_NoResetNoDeletion ==
    [][~reset_columns =>
          /\ pc = "writing" /\ pc' # "writing" =>
                /\ new_part'.columns = new_part.columns
                /\ new_part'.serialization_infos = new_part.serialization_infos
                /\ files_to_remove_after_finish' = {}
          /\ \A i \in DOMAIN log' : log'[i].op \notin DeletionOps]_vars

\* A stream that does not reset the columns closed a vertical merge, which
\* passed the total column list, for a part with serialization infos, and
\* finish completed.
C27_Witness ==
    /\ ~reset_columns
    /\ WasVertical
    /\ new_part.serialization_infos # {}
    /\ new_part.columns = ColumnNames
    /\ hist.impl_finish = 1 /\ ~hist.finish_error
    /\ Len(log) > 0

----------------------------------------------------------------------------
\* Properties of the part object after a cancel.

\* The part carries the metadata finalizePartAsync assigns.
CarriesMetadata ==
    \/ new_part.checksums # EmptyMap
    \/ new_part.rows_count # 0
    \/ new_part.bytes_on_disk # 0

\* C28: a part whose commit handle was cancelled carries none of the
\* rows_count, checksums and byte sizes that prepare assigns: they are absent
\* or reverted after cancel.
C28_CancelledPartCarriesNoMetadata ==
    hist.impl_cancel > 0 => ~CarriesMetadata

----------------------------------------------------------------------------
\* Properties of projection parts and of parts in the old format.

PartitionFilesOnDisk ==
    (DOMAIN disk \cap {PARTITION_FILE_NAME, SOURCE_PARTS_SET_FILE_NAME}) \cup MinMaxFilesOnDisk

----------------------------------------------------------------------------
\* Properties of the order of the calls of finish.

IsFinalize(o) == o.op = "finalize"
IsWriterFinish(o) == o.op = "writer.finish"

\* C30: among the calls of finish, finish(sync) of the column writer comes
\* before the first finalize of a pending file; the files are finalized in the
\* order in which prepare staged them; and sync() is called on a file, right
\* after its finalize, if and only if the handle was created with sync = true
\* (the last finalize is followed by nothing when the sync itself failed).
C30_FinishOrder ==
    LET finalized == SelectSeq(log, IsFinalize)
    IN  /\ \A i \in DOMAIN log :
              IsFinalize(log[i]) =>
                  /\ \E j \in 1..(i - 1) : IsWriterFinish(log[j])
                  /\ sync /\ i < Len(log) => log[i + 1] = Op("sync", log[i].file)
                  /\ sync /\ i = Len(log) => hist.finish_error
        /\ \A i \in DOMAIN log :
              log[i].op = "sync" =>
                  sync /\ i > 1 /\ log[i - 1] = Op("finalize", log[i].file)
        /\ Len(finalized) <= Len(written_files)
        /\ \A k \in DOMAIN finalized : finalized[k].file = written_files[k]

\* A handle created with sync = true finished completely: every staged file
\* was finalized and synced.
C30_Witness ==
    /\ sync
    /\ hist.impl_finish = 1 /\ ~hist.finish_error
    /\ Len(SelectSeq(log, IsFinalize)) = Len(written_files)
    /\ Len(written_files) >= 5
    /\ log[Len(log)].op \in {"sync", "removeFile"}

====
